---- MODULE Spec2Model ----
(***************************************************************************)
(* A model of the scales library (linearScale, rasteredLinearScale,        *)
(* logarithmicScale, clamped and the cross-scale helpers).                 *)
(*                                                                         *)
(* NUMBERS.  A JavaScript number is modelled as a value                    *)
(*      (n/d) * 10^(p/q)     n, d, p, q integers, d > 0, 0 <= p < q        *)
(* with a flag ex, or as one of the special values NaN, +Infinity,         *)
(* -Infinity.  The flag ex says that the double the library holds IS the   *)
(* value: it is a dyadic rational obtained from such values by operations  *)
(* whose real result is again a dyadic rational, so that no double         *)
(* operation rounded.  Without the flag the double lies within rounding    *)
(* error of the value (0.2, 1 - 0.8, 200/3, 10^0.5).  An operation whose   *)
(* result depends on which side of a discontinuity the double lies on      *)
(* (Math.round at a tie, Math.log10 and Math.sign at zero, a division by   *)
(* zero) is decided for a value with the flag only; for a value without    *)
(* it the result is Unrep.  "Eq" in a property below is equality of the    *)
(* values, that is, equality up to the rounding error of doubles.          *)
(* Division by zero, the logarithm of a non-positive number and            *)
(* arithmetic on NaN/Infinity follow IEEE-754; the sign of a zero is not   *)
(* modelled (every zero is +0).  Unrep also stands for a real number that  *)
(* has no representation of the form above (log10 of 5, or 1 + 10^(1/2));  *)
(* the calls of the model only take inputs whose results are not Unrep.    *)
(***************************************************************************)
EXTENDS Integers, Sequences, FiniteSets, TLC

VARIABLES scale, wrapped, call

vars == <<scale, wrapped, call>>

----------------------------------------------------------------------------
(* Arithmetic *)

Abs(i) == IF i < 0 THEN -i ELSE i

RECURSIVE Gcd(_, _)
Gcd(a, b) == IF b = 0 THEN a ELSE Gcd(b, a % b)

RECURSIVE IntPow(_, _)
IntPow(b, k) == IF k = 0 THEN 1 ELSE b * IntPow(b, k - 1)

RECURSIVE IsPow2(_)
IsPow2(i) == i = 1 \/ (i > 1 /\ i % 2 = 0 /\ IsPow2(i \div 2))

NaN == [t |-> "nan", n |-> 0, d |-> 1, p |-> 0, q |-> 1, ex |-> TRUE]
Unrep == [t |-> "unrep", n |-> 0, d |-> 1, p |-> 0, q |-> 1, ex |-> TRUE]
Inf(s) == [t |-> "inf", n |-> s, d |-> 1, p |-> 0, q |-> 1, ex |-> TRUE]
PosInf == Inf(1)
NegInf == Inf(-1)

\* the fraction n/d (d > 0) in lowest terms, times 10^(p/q); a double holds
\* it without error when it is a dyadic rational
Lowest(n, d, p, q) ==
  [t |-> "fin", n |-> n \div Gcd(Abs(n), d), d |-> d \div Gcd(Abs(n), d),
   p |-> p, q |-> q, ex |-> p = 0 /\ IsPow2(d \div Gcd(Abs(n), d))]

\* (n/d) * 10^k * 10^(p/q) for an integer k
Scaled(n, d, k, p, q) ==
  IF k >= 0 THEN Lowest(n * IntPow(10, k), d, p, q)
  ELSE Lowest(n, d * IntPow(10, -k), p, q)

\* (n/d) * 10^(p/q) with p/q in lowest terms: the exponent is split into its
\* floor and its fractional part
Split(n, d, p, q) == Scaled(n, d, p \div q, p - (p \div q) * q, q)

\* the finite value (n/d) * 10^(p/q) in normal form; d # 0, q > 0
Fin(n, d, p, q) ==
  IF n = 0
  THEN [t |-> "fin", n |-> 0, d |-> 1, p |-> 0, q |-> 1, ex |-> TRUE]
  ELSE Split(IF d < 0 THEN -n ELSE n, Abs(d),
             p \div Gcd(Abs(p), q), q \div Gcd(Abs(p), q))

\* the result v of an operation: it is the double itself only when the
\* operands were (exact) and v is a double
Approx(v, exact) ==
  IF v.t = "fin" /\ ~exact THEN [v EXCEPT !.ex = FALSE] ELSE v

Rat(n, d) == Fin(n, d, 0, 1)
Num(i) == Fin(i, 1, 0, 1)
Zero == Num(0)
One == Num(1)

IsFin(x) == x.t = "fin"
IsZero(x) == x.t = "fin" /\ x.n = 0
IsRational(x) == x.t = "fin" /\ x.p = 0
Sgn(x) == IF x.n > 0 THEN 1 ELSE IF x.n < 0 THEN -1 ELSE 0   \* of "fin" and "inf"

\* a zero that the double may miss on either side
NearZero(x) == x.t = "fin" /\ x.n = 0 /\ ~x.ex

\* the zero of the doubles
ExactZero(x) == x.t = "fin" /\ x.n = 0 /\ x.ex

Neg(x) == IF x.t \in {"fin", "inf"} THEN [x EXCEPT !.n = -x.n] ELSE x

Add(x, y) ==
  IF x.t = "unrep" \/ y.t = "unrep" THEN Unrep
  ELSE IF x.t = "nan" \/ y.t = "nan" THEN NaN
  ELSE IF x.t = "inf" /\ y.t = "inf" THEN (IF x.n = y.n THEN x ELSE NaN)
  ELSE IF x.t = "inf" THEN x
  ELSE IF y.t = "inf" THEN y
  ELSE IF x.n = 0 THEN Approx(y, x.ex)
  ELSE IF y.n = 0 THEN Approx(x, y.ex)
  ELSE IF x.p = y.p /\ x.q = y.q
       THEN Approx(Fin(x.n * y.d + y.n * x.d, x.d * y.d, x.p, x.q),
                   x.ex /\ y.ex)
  ELSE Unrep

Sub(x, y) == Add(x, Neg(y))

Mul(x, y) ==
  IF x.t = "unrep" \/ y.t = "unrep" THEN Unrep
  ELSE IF x.t = "nan" \/ y.t = "nan" THEN NaN
  ELSE IF x.t = "inf" \/ y.t = "inf"
       THEN (IF NearZero(x) \/ NearZero(y) THEN Unrep
             ELSE IF Sgn(x) * Sgn(y) = 0 THEN NaN
             ELSE Inf(Sgn(x) * Sgn(y)))
  ELSE Approx(Fin(x.n * y.n, x.d * y.d, x.p * y.q + y.p * x.q, x.q * y.q),
              (x.ex /\ y.ex) \/ ExactZero(x) \/ ExactZero(y))

Div(x, y) ==
  IF x.t = "unrep" \/ y.t = "unrep" THEN Unrep
  ELSE IF x.t = "nan" \/ y.t = "nan" THEN NaN
  ELSE IF x.t = "inf" /\ y.t = "inf" THEN NaN
  ELSE IF NearZero(y) THEN Unrep
  ELSE IF x.t = "inf" THEN Inf(IF Sgn(y) < 0 THEN -x.n ELSE x.n)
  ELSE IF y.t = "inf" THEN Zero
  ELSE IF y.n = 0
       THEN (IF NearZero(x) THEN Unrep
             ELSE IF x.n = 0 THEN NaN ELSE Inf(Sgn(x)))
  ELSE Approx(Fin(x.n * y.d, x.d * y.n, x.p * y.q - y.p * x.q, x.q * y.q),
              (x.ex /\ y.ex) \/ ExactZero(x))

\* x < y for positive finite x and y: (x.n/x.d)/(y.n/y.d) < 10^(y.p/y.q - x.p/x.q)
LtPos(x, y) ==
  LET cn == x.n * y.d
      cd == x.d * y.n
      ep == y.p * x.q - x.p * y.q
      eq == x.q * y.q
  IN IF ep = 0 THEN cn < cd
     ELSE IF cn >= 10 * cd THEN FALSE        \* the exponent is below 1
     ELSE IF 10 * cn <= cd THEN TRUE         \* the exponent is above -1
     ELSE IF cn = cd THEN ep > 0
     ELSE IF ep > 0 THEN IntPow(cn, eq) < IntPow(10, ep) * IntPow(cd, eq)
     ELSE IntPow(cn, eq) * IntPow(10, -ep) < IntPow(cd, eq)

\* x < y as JavaScript decides it: false whenever an operand is NaN
Lt(x, y) ==
  IF x.t \notin {"fin", "inf"} \/ y.t \notin {"fin", "inf"} THEN FALSE
  ELSE IF x.t = "inf" \/ y.t = "inf"
       THEN (IF x.t = "inf" /\ y.t = "inf" THEN x.n < y.n
             ELSE IF x.t = "inf" THEN x.n < 0 ELSE y.n > 0)
  ELSE IF Sgn(x) # Sgn(y) THEN Sgn(x) < Sgn(y)
  ELSE IF Sgn(x) = 0 THEN FALSE
  ELSE IF Sgn(x) > 0 THEN LtPos(x, y)
  ELSE LtPos(Neg(y), Neg(x))

Le(x, y) == x.t \in {"fin", "inf"} /\ y.t \in {"fin", "inf"} /\ ~Lt(y, x)

----------------------------------------------------------------------------
(* The host's Math functions *)

RECURSIVE IsPow10(_)
IsPow10(i) == i = 1 \/ (i > 1 /\ i % 10 = 0 /\ IsPow10(i \div 10))

RECURSIVE Log10Int(_)
Log10Int(i) == IF i <= 1 THEN 0 ELSE 1 + Log10Int(i \div 10)

\* A faulty variant of MathRound: a tie goes away from zero
MathRoundAway(x) ==
  IF x.t # "fin" THEN x
  ELSE IF x.p # 0 \/ (x.d = 2 /\ ~x.ex) THEN Unrep
  ELSE IF x.n >= 0 THEN Num((2 * x.n + x.d) \div (2 * x.d))
  ELSE Num(-((2 * (-x.n) + x.d) \div (2 * x.d)))

\* Math.round: the nearest integer, a tie going to the greater one.  A tie
\* is a tie of the double only when the double is the value (x.ex).
MathRound(x) ==
  IF x.t # "fin" THEN x
  ELSE IF x.p # 0 \/ (x.d = 2 /\ ~x.ex) THEN Unrep
  ELSE Num((2 * x.n + x.d) \div (2 * x.d))

MathSign(x) ==
  IF NearZero(x) THEN Unrep
  ELSE IF x.t \in {"fin", "inf"} THEN Num(Sgn(x)) ELSE x

\* Math.log10; it is exact at the integer powers of ten
MathLog10(x) ==
  IF x.t \in {"unrep", "nan"} THEN x
  ELSE IF x.t = "inf" THEN (IF x.n > 0 THEN PosInf ELSE NaN)
  ELSE IF NearZero(x) THEN Unrep
  ELSE IF x.n < 0 THEN NaN
  ELSE IF x.n = 0 THEN NegInf
  ELSE IF x.d = 1 /\ IsPow10(x.n)
       THEN Approx(Rat(Log10Int(x.n) * x.q + x.p, x.q), x.ex)
  ELSE IF x.n = 1 /\ IsPow10(x.d)
       THEN Approx(Rat(x.p - Log10Int(x.d) * x.q, x.q), x.ex)
  ELSE Unrep

\* Math.pow(10, e); a power beyond 10^9 or 10^-9 is not represented
MathPow10(e) ==
  IF e.t \in {"unrep", "nan"} THEN e
  ELSE IF e.t = "inf" THEN (IF e.n > 0 THEN PosInf ELSE Zero)
  ELSE IF e.p # 0 \/ Abs(e.n) > 9 * e.d THEN Unrep
  ELSE Approx(Fin(1, 1, e.n, e.d), e.ex)

\* Math.min and Math.max; of two equal values the result is the double of
\* either
MathMin(x, y) ==
  IF x.t = "unrep" \/ y.t = "unrep" THEN Unrep
  ELSE IF x.t = "nan" \/ y.t = "nan" THEN NaN
  ELSE IF Lt(y, x) THEN y
  ELSE IF Lt(x, y) THEN x
  ELSE Approx(x, x.ex /\ y.ex)

MathMax(x, y) ==
  IF x.t = "unrep" \/ y.t = "unrep" THEN Unrep
  ELSE IF x.t = "nan" \/ y.t = "nan" THEN NaN
  ELSE IF Lt(x, y) THEN y
  ELSE IF Lt(y, x) THEN x
  ELSE Approx(x, x.ex /\ y.ex)


----------------------------------------------------------------------------
(* The library.  A function value of the source is a record naming its     *)
(* code and holding the variables its closure captured; Apply calls it.    *)

RECURSIVE Apply(_, _)

\* A faulty variant of clampedToRatio: the lower bound is not applied
clampedToRatioUpperOnly(value, toRatio) ==
  MathMin(Apply(toRatio, value), One)

clampedToRatio(value, toRatio) ==
  MathMax(Zero, MathMin(Apply(toRatio, value), One))

clampedToAbsolute(ratio, min, max, toAbsolute) ==
  MathMax(min, MathMin(Apply(toAbsolute, ratio), max))

linearToRatio(env, a) ==
  LET r == Div(Sub(a, env.min), env.range)
  IN IF env.inverted THEN Sub(One, r) ELSE r

\* A faulty variant of linearToAbsolute: the inverted flag is ignored
linearToAbsoluteNotInverted(env, r) ==
  Add(env.min, Mul(r, env.range))

linearToAbsolute(env, r) ==
  IF env.inverted
  THEN Add(env.min, Mul(Sub(One, r), env.range))
  ELSE Add(env.min, Mul(r, env.range))

rasteredToRatio(env, a) ==
  LET rastered == Mul(MathRound(Div(a, env.stepSize)), env.stepSize)
  IN Apply(env.delegate.toRatio, rastered)

\* A faulty variant of rasteredToAbsolute: the delegate's value is not snapped
rasteredToAbsoluteUnsnapped(env, r) ==
  Apply(env.delegate.toAbsolute, r)

rasteredToAbsolute(env, r) ==
  LET a == Apply(env.delegate.toAbsolute, r)
  IN Mul(MathRound(Div(a, env.stepSize)), env.stepSize)

logToRatio(env, a) ==
  LET logAbs == MathLog10(Mul(env.sign, a))
      r == Div(Sub(logAbs, env.logMin), env.logRange)
  IN IF env.inverted THEN Sub(One, r) ELSE r

logToAbsolute(env, r) ==
  IF env.inverted
  THEN LET logAbs == Add(env.logMin, Mul(Sub(One, r), env.logRange))
       IN Mul(env.sign, MathPow10(logAbs))
  ELSE LET logAbs == Add(env.logMin, Mul(r, env.logRange))
       IN Mul(env.sign, MathPow10(logAbs))

\* f(x) for a toRatio or toAbsolute function value f
Apply(f, x) ==
  CASE f.code = "linearScale.toRatio" -> linearToRatio(f.env, x)
    [] f.code = "linearScale.toAbsolute" -> linearToAbsolute(f.env, x)
    [] f.code = "rasteredLinearScale.toRatio" -> rasteredToRatio(f.env, x)
    [] f.code = "rasteredLinearScale.toAbsolute" -> rasteredToAbsolute(f.env, x)
    [] f.code = "logarithmicScale.toRatio" -> logToRatio(f.env, x)
    [] f.code = "logarithmicScale.toAbsolute" -> logToAbsolute(f.env, x)
    [] f.code = "clamped.toRatio" -> clampedToRatio(x, f.toRatio)
    [] f.code = "clamped.toAbsolute" ->
         clampedToAbsolute(x, f.min, f.max, f.toAbsolute)

convertScaleTo(otherScale, a, toRatio) ==
  LET ratio == Apply(toRatio, a)
  IN Apply(otherScale.toAbsolute, ratio)

\* A faulty variant of applyDeltaToScale: the delta is added in the other scale's units
applyDeltaInOtherUnits(otherScale, delta, otherCurrent, toAbsolute, toRatio) ==
  Add(otherCurrent, delta)

\* A faulty variant of applyDeltaToScale: the position is not converted to a ratio first
applyDeltaSkippingRatio(otherScale, delta, otherCurrent, toAbsolute, toRatio) ==
  LET currentAbs == Apply(toAbsolute, otherCurrent)
      newAbs == Add(currentAbs, delta)
      newRatio == Apply(toRatio, newAbs)
  IN Apply(otherScale.toAbsolute, newRatio)

applyDeltaToScale(otherScale, delta, otherCurrent, toAbsolute, toRatio) ==
  LET currentRatio == Apply(otherScale.toRatio, otherCurrent)
      currentAbs == Apply(toAbsolute, currentRatio)
      newAbs == Add(currentAbs, delta)
      newRatio == Apply(toRatio, newAbs)
  IN Apply(otherScale.toAbsolute, newRatio)

\* the object a constructor returns, from its two conversion closures
ScaleObject(min, max, toRatio, toAbsolute) ==
  [min |-> min, max |-> max, toRatio |-> toRatio, toAbsolute |-> toAbsolute,
   convertTo |-> [code |-> "convertTo", toRatio |-> toRatio],
   applyDeltaTo |-> [code |-> "applyDeltaTo", toAbsolute |-> toAbsolute,
                     toRatio |-> toRatio]]

linearScale(min, max, inverted) ==
  LET env == [min |-> min, range |-> Sub(max, min), inverted |-> inverted]
  IN ScaleObject(min, max,
                 [code |-> "linearScale.toRatio", env |-> env],
                 [code |-> "linearScale.toAbsolute", env |-> env])

rasteredLinearScale(min, max, stepSize, inverted) ==
  LET env == [delegate |-> linearScale(min, max, inverted), stepSize |-> stepSize]
  IN ScaleObject(min, max,
                 [code |-> "rasteredLinearScale.toRatio", env |-> env],
                 [code |-> "rasteredLinearScale.toAbsolute", env |-> env])

logarithmicScale(min, max, inverted) ==
  LET sign == MathSign(min)
      logMin == IF Sgn(sign) < 0 THEN MathLog10(Mul(sign, max))
                                 ELSE MathLog10(Mul(sign, min))
      logMax == IF Sgn(sign) < 0 THEN MathLog10(Mul(sign, min))
                                 ELSE MathLog10(Mul(sign, max))
      env == [sign |-> sign, logMin |-> logMin, logMax |-> logMax,
              logRange |-> Sub(logMax, logMin), inverted |-> inverted]
  IN ScaleObject(min, max,
                 [code |-> "logarithmicScale.toRatio", env |-> env],
                 [code |-> "logarithmicScale.toAbsolute", env |-> env])

clamped(s) ==
  [s EXCEPT !.toRatio = [code |-> "clamped.toRatio", toRatio |-> s.toRatio],
            !.toAbsolute = [code |-> "clamped.toAbsolute", min |-> s.min,
                            max |-> s.max, toAbsolute |-> s.toAbsolute]]

\* s.toRatio(a), s.toAbsolute(r), s.convertTo(o, a), s.applyDeltaTo(o, d, c)
toRatio(s, a) == Apply(s.toRatio, a)
toAbsolute(s, r) == Apply(s.toAbsolute, r)
\* A faulty variant of convertTo: the object's current toRatio is used, not the captured one
convertToViaObject(s, otherScale, a) == convertScaleTo(otherScale, a, s.toRatio)

convertTo(s, otherScale, a) == convertScaleTo(otherScale, a, s.convertTo.toRatio)
applyDeltaTo(s, otherScale, delta, otherCurrent) ==
  applyDeltaToScale(otherScale, delta, otherCurrent,
                    s.applyDeltaTo.toAbsolute, s.applyDeltaTo.toRatio)

----------------------------------------------------------------------------
(* Bounds of the model and the inputs drawn within them *)

RatioDen == 4     \* ratios are k/RatioDen for k in -2 .. RatioDen + 2
MaxTick == 3      \* absolute values 50*k for k in -1 .. MaxTick
MaxSmall == 5     \* absolute values -MaxSmall .. MaxSmall
MaxExp == 3       \* absolute values +-10^k for k in -1 .. MaxExp
MaxCalls == 3     \* calls made one after the other on a scale

Ratios == {Rat(k, RatioDen) : k \in (-2) .. (RatioDen + 2)}

Values ==
  {Num(50 * k) : k \in (-1) .. MaxTick}
    \cup {Num(k) : k \in (-MaxSmall) .. MaxSmall}
    \cup {Fin(sg, 1, k, 1) : sg \in {-1, 1}, k \in (-1) .. MaxExp}

Positions == {Num(50), Num(100), Num(-10)}
Deltas == {Num(-9), Num(0), Num(10)}

LinearScales ==
  {linearScale(Num(b[1]), Num(b[2]), inv) :
     b \in {<<0, 100>>, <<100, 0>>}, inv \in BOOLEAN}
    \cup {linearScale(Num(-50), Num(50), FALSE)}

\* the fourth has a stepSize that is not a double (0.1), the last an empty
\* range (min = max)
RasteredScales ==
  {rasteredLinearScale(Num(0), Num(100), Num(2), FALSE),
   rasteredLinearScale(Num(-10), Num(10), Num(4), TRUE),
   rasteredLinearScale(Num(0), Num(10), Rat(1, 2), FALSE),
   rasteredLinearScale(Num(1), Num(0), Rat(1, 10), FALSE),
   rasteredLinearScale(Num(5), Num(5), Num(2), FALSE)}

\* the last one is not well formed: its bounds differ in sign
LogScales ==
  {logarithmicScale(Num(b[1]), Num(b[2]), inv) :
     b \in {<<1, 100>>, <<-1000, -1>>}, inv \in BOOLEAN}
    \cup {logarithmicScale(Num(-10), Num(10), FALSE)}

Scales == LinearScales \cup RasteredScales \cup LogScales

OtherScales ==
  {linearScale(Num(0), Num(200), FALSE),
   linearScale(Num(0), Num(200), TRUE),
   logarithmicScale(Num(-1000), Num(-1), FALSE),
   clamped(linearScale(Num(0), Num(100), FALSE))}

----------------------------------------------------------------------------
(* The state: a scale object, the object clamped(scale) returned (if it    *)
(* was called), and the calls made so far with their arguments and         *)
(* results.                                                                *)

Targets == {"scale"} \cup (IF wrapped # <<>> THEN {"clamped"} ELSE {})
Target(on) == IF on = "scale" THEN scale ELSE wrapped[1]

\* a call on the object `on`; to is <<otherScale>> for a cross-scale call
Called(op, on, to, arg, delta, res) ==
  [op |-> op, on |-> on, to |-> to, arg |-> arg, delta |-> delta, res |-> res]

Last == call[Len(call)]

Record(c) == c.res.t # "unrep" /\ call' = Append(call, c)

Init ==
  /\ scale \in Scales
  /\ wrapped = <<>>
  /\ call = <<>>

\* clamped(scale): a new object; scale itself is not assigned to
Clamp ==
  /\ wrapped = <<>>
  /\ wrapped' = <<clamped(scale)>>
  /\ UNCHANGED <<scale, call>>

CallToRatio(on, a) ==
  /\ call = <<>>
  /\ Record(Called("toRatio", on, <<>>, a, Zero, toRatio(Target(on), a)))
  /\ UNCHANGED <<scale, wrapped>>

CallToAbsolute(on, r) ==
  /\ call = <<>>
  /\ Record(Called("toAbsolute", on, <<>>, r, Zero, toAbsolute(Target(on), r)))
  /\ UNCHANGED <<scale, wrapped>>

CallConvertTo(on, o, a) ==
  /\ call = <<>>
  /\ Record(Called("convertTo", on, <<o>>, a, Zero, convertTo(Target(on), o, a)))
  /\ UNCHANGED <<scale, wrapped>>

CallApplyDeltaTo(on, o, d, c) ==
  /\ call = <<>>
  /\ Record(Called("applyDeltaTo", on, <<o>>, c, d,
                   applyDeltaTo(Target(on), o, d, c)))
  /\ UNCHANGED <<scale, wrapped>>

\* the result of the last call is passed to the next one, on the same object
FeedToAbsolute ==
  /\ call # <<>> /\ Len(call) < MaxCalls
  /\ Last.op = "toRatio"
  /\ Record(Called("toAbsolute", Last.on, <<>>, Last.res, Zero,
                   toAbsolute(Target(Last.on), Last.res)))
  /\ UNCHANGED <<scale, wrapped>>

FeedToRatio ==
  /\ call # <<>> /\ Len(call) < MaxCalls
  /\ Last.op = "toAbsolute"
  /\ Record(Called("toRatio", Last.on, <<>>, Last.res, Zero,
                   toRatio(Target(Last.on), Last.res)))
  /\ UNCHANGED <<scale, wrapped>>

FeedApplyDeltaTo(d) ==
  /\ call # <<>> /\ Len(call) < MaxCalls
  /\ Last.op = "applyDeltaTo"
  /\ Record(Called("applyDeltaTo", Last.on, Last.to, Last.res, d,
                   applyDeltaTo(Target(Last.on), Last.to[1], d, Last.res)))
  /\ UNCHANGED <<scale, wrapped>>

Next ==
  \/ Clamp
  \/ \E on \in Targets, a \in Values : CallToRatio(on, a)
  \/ \E on \in Targets, r \in Ratios : CallToAbsolute(on, r)
  \/ \E on \in Targets, o \in OtherScales, a \in Values : CallConvertTo(on, o, a)
  \/ \E on \in Targets, o \in OtherScales, d \in Deltas, c \in Positions :
       CallApplyDeltaTo(on, o, d, c)
  \/ FeedToAbsolute
  \/ FeedToRatio
  \/ \E d \in Deltas : FeedApplyDeltaTo(d)

Spec == Init /\ [][Next]_vars

----------------------------------------------------------------------------
(* Vocabulary of the properties *)

IsLinearScale(s) == s.toRatio.code = "linearScale.toRatio"
IsRasteredScale(s) == s.toRatio.code = "rasteredLinearScale.toRatio"
IsLogScale(s) == s.toRatio.code = "logarithmicScale.toRatio"

\* the inverted flag a constructed (not clamped) scale was given
Inverted(s) ==
  IF IsRasteredScale(s) THEN s.toRatio.env.delegate.toRatio.env.inverted
  ELSE s.toRatio.env.inverted

\* min and max nonzero and of the same sign
SameSignBounds(s) == IsFin(s.min) /\ IsFin(s.max) /\ Sgn(s.min) * Sgn(s.max) = 1

Between(x, lo, hi) == Le(lo, x) /\ Le(x, hi)
InUnit(x) == Between(x, Zero, One)
InBounds(s, x) == Between(x, s.min, s.max) \/ Between(x, s.max, s.min)
IsInteger(x) == IsRational(x) /\ x.d = 1
Half == Rat(1, 2)
IsTie(x) == IsRational(x) /\ x.d = 2          \* an integer plus one half

\* x and y are the same value: the doubles are equal up to rounding error,
\* and equal when both are exact
Eq(x, y) == [x EXCEPT !.ex = TRUE] = [y EXCEPT !.ex = TRUE]

Calls == 1 .. Len(call)
TheLinear == linearScale(Num(0), Num(100), FALSE)
TheLog == logarithmicScale(Num(-1000), Num(-1), FALSE)
TheOther == linearScale(Num(0), Num(200), FALSE)

----------------------------------------------------------------------------
(* C1.  With linear = linearScale(0,100) and log = logarithmicScale(-1000, *)
(* -1), linear.convertTo(log, 0) is -1000, linear.convertTo(log, 100) is   *)
(* -1, and linear.convertTo(log, 50) is -10^1.5.                           *)
C1_ConvertEndpoints ==
  \A i \in Calls :
    (scale = TheLinear /\ call[i].op = "convertTo" /\ call[i].on = "scale"
       /\ call[i].to = <<TheLog>>)
    => /\ call[i].arg = Num(0) => Eq(call[i].res, Num(-1000))
       /\ call[i].arg = Num(100) => Eq(call[i].res, Num(-1))
       /\ call[i].arg = Num(50) => Eq(call[i].res, Fin(-1, 1, 3, 2))

(* C2, as stated.  For every linear, rastered or logarithmic scale s with  *)
(* min < max and every input, clamped(s).toRatio is in [0,1] and           *)
(* clamped(s).toAbsolute is in [s.min, s.max].  (Read here for the scales  *)
(* the constructors' contract admits: a logarithmic scale's bounds are     *)
(* nonzero and of the same sign.)                                          *)
C2_ClampedBoundsAnyInput ==
  \A i \in Calls :
    (/\ call[i].on = "clamped" /\ Lt(scale.min, scale.max)
     /\ IsLogScale(scale) => SameSignBounds(scale))
    => /\ call[i].op = "toRatio" => InUnit(call[i].res)
       /\ call[i].op = "toAbsolute" => Between(call[i].res, scale.min, scale.max)

(* C2, amended.  The same bounds hold for every input that is not NaN,     *)
(* provided that for a logarithmic scale min and max are nonzero and of    *)
(* the same sign and the value given to toRatio is not of the opposite     *)
(* sign; clamped(linearScale(0,100)).toRatio(150) is exactly 1.            *)
C2_ClampedBounds ==
  \A i \in Calls :
    (/\ call[i].on = "clamped" /\ Lt(scale.min, scale.max)
     /\ call[i].arg.t # "nan"
     /\ IsLogScale(scale) =>
          /\ SameSignBounds(scale)
          /\ call[i].op = "toRatio" => Sgn(call[i].arg) * Sgn(scale.min) >= 0)
    => /\ call[i].op = "toRatio" => InUnit(call[i].res)
       /\ call[i].op = "toAbsolute" => Between(call[i].res, scale.min, scale.max)
       /\ (scale = TheLinear /\ call[i].op = "toRatio" /\ call[i].arg = Num(150))
            => call[i].res = One

C2_Witness ==
  /\ call # <<>> /\ scale = TheLinear
  /\ Last.on = "clamped" /\ Last.op = "toRatio"
  /\ Last.arg = Num(150) /\ Last.res = One

(* C3.  Round trip: for a linear scale with min < max, or a logarithmic    *)
(* scale with min and max nonzero and of the same sign, inverted or not,   *)
(* and x between min and max, toAbsolute(toRatio(x)) equals x.             *)
C3_RoundTrip ==
  \A i \in Calls :
    (/\ i + 1 \in Calls
     /\ call[i].on = "scale" /\ call[i].op = "toRatio"
     /\ call[i + 1].op = "toAbsolute" /\ call[i + 1].arg = call[i].res
     /\ \/ IsLinearScale(scale) /\ Lt(scale.min, scale.max)
        \/ IsLogScale(scale) /\ SameSignBounds(scale)
     /\ InBounds(scale, call[i].arg))
    => Eq(call[i + 1].res, call[i].arg)

C3_Witness ==
  /\ Len(call) = 2 /\ IsLogScale(scale) /\ Inverted(scale)
  /\ scale.min = Num(-1000)
  /\ call[1].on = "scale" /\ call[1].op = "toRatio" /\ call[1].arg = Num(-10)
  /\ Eq(call[1].res, Rat(2, 3)) /\ ~call[1].res.ex
  /\ call[2].op = "toAbsolute" /\ Eq(call[2].res, Num(-10))

(* C4.  Ratio bounds: for a linear scale, or a logarithmic scale of        *)
(* positive or negative range, with min < max, toRatio(min) is 0 and       *)
(* toRatio(max) is 1 when not inverted, and 1 and 0 when inverted.         *)
C4_RatioBounds ==
  \A i \in Calls :
    (/\ call[i].on = "scale" /\ call[i].op = "toRatio"
     /\ Lt(scale.min, scale.max)
     /\ \/ IsLinearScale(scale)
        \/ IsLogScale(scale) /\ SameSignBounds(scale))
    => /\ Eq(call[i].arg, scale.min)
            => Eq(call[i].res, IF Inverted(scale) THEN One ELSE Zero)
       /\ Eq(call[i].arg, scale.max)
            => Eq(call[i].res, IF Inverted(scale) THEN Zero ELSE One)

(* C5, as stated.  With linear = linearScale(0,100) and other =            *)
(* linearScale(0,200), linear.applyDeltaTo(other, 10, 50) equals 60.       *)
C5_DeltaIs60 ==
  (/\ Len(call) = 1 /\ scale = TheLinear
   /\ Last.on = "scale" /\ Last.op = "applyDeltaTo" /\ Last.to = <<TheOther>>
   /\ Last.delta = Num(10) /\ Last.arg = Num(50))
  => Eq(Last.res, Num(60))

(* C5, amended.  linear.applyDeltaTo(other, 10, 50) equals 70.             *)
C5_DeltaIs70 ==
  (/\ Len(call) = 1 /\ scale = TheLinear
   /\ Last.on = "scale" /\ Last.op = "applyDeltaTo" /\ Last.to = <<TheOther>>
   /\ Last.delta = Num(10) /\ Last.arg = Num(50))
  => Eq(Last.res, Num(70))

C5_Witness ==
  /\ Len(call) = 1 /\ scale = TheLinear
  /\ Last.on = "scale" /\ Last.op = "applyDeltaTo" /\ Last.to = <<TheOther>>
  /\ Last.delta = Num(10) /\ Last.arg = Num(50) /\ Eq(Last.res, Num(70))

(* C6.  clamped(s) does not clamp the cross-scale operations and does not  *)
(* alter s: clamped(s).convertTo(o, v) equals s.convertTo(o, v) and        *)
(* clamped(s).applyDeltaTo(o, d, c) equals s.applyDeltaTo(o, d, c) for     *)
(* every o, v, d and c; and once clamped(s) exists, s.toRatio of a value   *)
(* strictly outside the bounds of a linear or (well-formed) logarithmic s  *)
(* is still outside [0,1], and s.toAbsolute of a ratio outside [0,1] is    *)
(* still outside the bounds.                                               *)
C6_CrossScaleUnclamped ==
  \A i \in Calls :
    /\ (call[i].on = "clamped" /\ call[i].op = "convertTo")
         => Eq(call[i].res, convertTo(scale, call[i].to[1], call[i].arg))
    /\ (call[i].on = "clamped" /\ call[i].op = "applyDeltaTo")
         => Eq(call[i].res,
               applyDeltaTo(scale, call[i].to[1], call[i].delta, call[i].arg))
    /\ (/\ wrapped # <<>> /\ call[i].on = "scale"
        /\ IsLinearScale(scale) \/ (IsLogScale(scale) /\ SameSignBounds(scale))
        /\ IsFin(call[i].arg))
         => /\ (/\ call[i].op = "toRatio" /\ ~InBounds(scale, call[i].arg)
                /\ IsLogScale(scale) => Sgn(call[i].arg) = Sgn(scale.min))
                 => ~InUnit(call[i].res)
            /\ (call[i].op = "toAbsolute" /\ ~InUnit(call[i].arg))
                 => ~InBounds(scale, call[i].res)

C6_Witness ==
  /\ call # <<>> /\ wrapped # <<>>
  /\ Last.on = "clamped" /\ Last.op = "convertTo"
  /\ ~Eq(toRatio(wrapped[1], Last.arg), toRatio(scale, Last.arg))
  /\ IsFin(Last.res) /\ ~InBounds(Last.to[1], Last.res)

(* C7, as stated.  For every rastered linear scale (any min and max,       *)
(* stepSize > 0) and every ratio r, toAbsolute(r) is an integer multiple   *)
(* of stepSize, and with y = toAbsolute(r), toAbsolute(toRatio(y)) equals  *)
(* y.  ("Multiple" is read with the tolerance of the doubles, so that only *)
(* a failure no rounding explains refutes it.)                             *)
C7_RasterIdempotentAnyRange ==
  \A i \in Calls :
    (/\ IsRasteredScale(scale) /\ call[i].on = "scale"
     /\ call[i].op = "toAbsolute" /\ IsFin(call[i].arg))
    => /\ IsInteger(Div(call[i].res, scale.toAbsolute.env.stepSize))
       /\ (/\ i + 2 \in Calls
           /\ call[i + 1].op = "toRatio" /\ call[i + 1].arg = call[i].res
           /\ call[i + 2].op = "toAbsolute" /\ call[i + 2].arg = call[i + 1].res)
            => Eq(call[i + 2].res, call[i].res)

(* C7, amended.  For a rastered linear scale with min # max and            *)
(* stepSize > 0 and every finite ratio r, toAbsolute(r) is k * stepSize    *)
(* for an integer k: a multiple of stepSize up to the rounding of that     *)
(* product, and exactly a multiple when stepSize is a dyadic rational      *)
(* (2, 4, 1/2; not 0.1).  With y = toAbsolute(r), toAbsolute(toRatio(y))   *)
(* equals y.                                                               *)
C7_RasterIdempotent ==
  \A i \in Calls :
    (/\ IsRasteredScale(scale) /\ call[i].on = "scale"
     /\ ~Eq(scale.min, scale.max)
     /\ call[i].op = "toAbsolute" /\ IsFin(call[i].arg))
    => /\ IsInteger(Div(call[i].res, scale.toAbsolute.env.stepSize))
       /\ scale.toAbsolute.env.stepSize.ex => call[i].res.ex
       /\ (/\ i + 2 \in Calls
           /\ call[i + 1].op = "toRatio" /\ call[i + 1].arg = call[i].res
           /\ call[i + 2].op = "toAbsolute" /\ call[i + 2].arg = call[i + 1].res)
            => Eq(call[i + 2].res, call[i].res)

C7_Witness ==
  /\ Len(call) = 3 /\ IsRasteredScale(scale) /\ call[1].on = "scale"
  /\ ~Eq(scale.min, scale.max)
  /\ call[1].op = "toAbsolute" /\ call[2].op = "toRatio"
  /\ call[3].op = "toAbsolute"
  /\ ~Eq(call[1].res,
         Apply(scale.toAbsolute.env.delegate.toAbsolute, call[1].arg))
  /\ call[3].res = call[1].res

\* the value a rastered scale snaps a to when a/stepSize is a tie
SnappedUp(a, stepSize) == Add(a, Mul(Half, stepSize))
SnappedAway(a, stepSize) ==
  IF Sgn(a) < 0 THEN Sub(a, Mul(Half, stepSize)) ELSE Add(a, Mul(Half, stepSize))

(* C8, as stated.  A rastered scale rounds a tie away from zero: for a     *)
(* halfway between two multiples of stepSize, toRatio(a) is the delegate's *)
(* toRatio of the multiple farther from zero, and toAbsolute snaps the     *)
(* delegate's value the same way.                                          *)
C8_TiesAwayFromZero ==
  \A i \in Calls :
    (IsRasteredScale(scale) /\ call[i].on = "scale")
    => LET env == scale.toRatio.env
           a == Apply(env.delegate.toAbsolute, call[i].arg)
       IN /\ (call[i].op = "toRatio" /\ IsTie(Div(call[i].arg, env.stepSize)))
               => Eq(call[i].res,
                     Apply(env.delegate.toRatio,
                           SnappedAway(call[i].arg, env.stepSize)))
          /\ (call[i].op = "toAbsolute" /\ IsTie(Div(a, env.stepSize)))
               => Eq(call[i].res, SnappedAway(a, env.stepSize))

(* C8, amended.  A rastered scale rounds a tie to the greater multiple     *)
(* (toward +Infinity, as Math.round does): for a halfway between two       *)
(* multiples of stepSize, negative a included, toRatio(a) is the           *)
(* delegate's toRatio of a + stepSize/2, and toAbsolute snaps the          *)
(* delegate's value the same way.                                          *)
C8_TiesUp ==
  \A i \in Calls :
    (IsRasteredScale(scale) /\ call[i].on = "scale")
    => LET env == scale.toRatio.env
           a == Apply(env.delegate.toAbsolute, call[i].arg)
       IN /\ (call[i].op = "toRatio" /\ IsTie(Div(call[i].arg, env.stepSize)))
               => Eq(call[i].res,
                     Apply(env.delegate.toRatio,
                           SnappedUp(call[i].arg, env.stepSize)))
          /\ (call[i].op = "toAbsolute" /\ IsTie(Div(a, env.stepSize)))
               => Eq(call[i].res, SnappedUp(a, env.stepSize))

C8_Witness ==
  /\ Len(call) = 1 /\ IsRasteredScale(scale) /\ Last.on = "scale"
  /\ scale.toRatio.env.stepSize = Num(2) /\ ~Inverted(scale)
  /\ Last.op = "toRatio" /\ Last.arg = Num(-5)
  /\ Eq(Last.res, Rat(-4, 100))

(* C9.  Clamping is transparent for in-range values, whichever way the     *)
(* bounds are ordered: for a linear scale s with min # max, clamped(s)     *)
(* .toAbsolute(r) equals s.toAbsolute(r) for r in [0,1], and clamped(s)    *)
(* .toRatio(a) equals s.toRatio(a) for a between min and max.              *)
C9_ClampTransparent ==
  \A i \in Calls :
    (IsLinearScale(scale) /\ scale.min # scale.max /\ call[i].on = "clamped")
    => /\ (call[i].op = "toAbsolute" /\ InUnit(call[i].arg))
            => Eq(call[i].res, toAbsolute(scale, call[i].arg))
       /\ (call[i].op = "toRatio" /\ InBounds(scale, call[i].arg))
            => Eq(call[i].res, toRatio(scale, call[i].arg))

\* the sum of the deltas of the first k calls
RECURSIVE DeltaSum(_)
DeltaSum(k) == IF k = 0 THEN Zero ELSE Add(DeltaSum(k - 1), call[k].delta)

(* C10.  applyDeltaTo is additive for linear scales this and other         *)
(* (min # max, any inverted flags): feeding each result back as the        *)
(* position, the deltas d_1 .. d_n lead from c to the position one call    *)
(* with delta d_1 + ... + d_n leads to; a delta of 0 returns c unchanged.  *)
C10_DeltaAdditive ==
  \A k \in Calls :
    (/\ call[k].on = "scale" /\ call[k].op = "applyDeltaTo"
     /\ IsLinearScale(scale) /\ IsLinearScale(call[k].to[1]))
    => /\ Eq(call[k].res,
             applyDeltaTo(scale, call[k].to[1], DeltaSum(k), call[1].arg))
       /\ call[k].delta = Zero => Eq(call[k].res, call[k].arg)

C10_Witness ==
  /\ Len(call) = 3 /\ Last.on = "scale" /\ Last.op = "applyDeltaTo"
  /\ IsLinearScale(scale) /\ IsLinearScale(Last.to[1])
  /\ Inverted(scale) /\ Inverted(Last.to[1])
  /\ call[1].delta = Num(10) /\ call[2].delta = Num(-9) /\ call[3].delta = Num(10)
  /\ call[1].arg = Num(50) /\ ~Eq(Last.res, call[1].arg)

====
